---------------------------- MODULE Spec2Model ----------------------------
(***************************************************************************)
(* Model of the capacity-sizing scripts Sizing/MongoDBSizing_CL.py (tier   *)
(* recommendation) and Sizing/MongoSizing.py (proportional allocation).    *)
(*                                                                         *)
(* Text is a sequence of one-character strings.  A Python float is an      *)
(* exact rational [n, d] with d > 0 in lowest terms, so "within floating   *)
(* tolerance" in a statement reads as exact equality here.                 *)
(***************************************************************************)
EXTENDS Integers, Sequences, FiniteSets, TLC

VARIABLES script, PURE_DATA_ONLY, pc, consumed, clients_data,
          total_data_gb, total_iops, out, call, ret

vars == <<script, PURE_DATA_ONLY, pc, consumed, clients_data,
          total_data_gb, total_iops, out, call, ret>>

---------------------------------------------------------------------------
(* Bounds of the model.                                                    *)

\* lines read from the input file in one run
MaxLines == 3
\* tokens concatenated into one field text given to a parser
MaxTokens == 4

---------------------------------------------------------------------------
(* Floats as exact rationals.                                              *)

Abs(x) == IF x < 0 THEN -x ELSE x

RECURSIVE GCD(_, _)
GCD(a, b) == IF b = 0 THEN a ELSE GCD(b, a % b)

\* the float n/d, d > 0
Rat(n, d) == LET g == GCD(Abs(n), d) IN [n |-> n \div g, d |-> d \div g]

R(i) == [n |-> i, d |-> 1]

RAdd(x, y) == Rat(x.n * y.d + y.n * x.d, x.d * y.d)

RMul(x, y) ==
  LET g1 == GCD(Abs(x.n), y.d)
      g2 == GCD(Abs(y.n), x.d)
  IN  Rat((x.n \div g1) * (y.n \div g2), (x.d \div g2) * (y.d \div g1))

\* x / y for y # 0
RDiv(x, y) == IF y.n < 0 THEN Rat(-(x.n * y.d), x.d * (-y.n))
                         ELSE Rat(x.n * y.d, x.d * y.n)

RGe(x, y) == x.n * y.d >= y.n * x.d

RECURSIVE Pow10(_)
Pow10(k) == IF k = 0 THEN 1 ELSE 10 * Pow10(k - 1)

---------------------------------------------------------------------------
(* str methods and the regular expressions the scripts use.                *)

Whitespace == {" ", "\t"}

Digits == {"0", "1", "2", "3", "4", "5", "6", "7", "8", "9"}

DigitVal(c) ==
  CASE c = "0" -> 0 [] c = "1" -> 1 [] c = "2" -> 2 [] c = "3" -> 3
    [] c = "4" -> 4 [] c = "5" -> 5 [] c = "6" -> 6 [] c = "7" -> 7
    [] c = "8" -> 8 [] c = "9" -> 9

\* str.lower on one character
LowerChar(c) ==
  CASE c = "A" -> "a" [] c = "B" -> "b" [] c = "D" -> "d" [] c = "G" -> "g"
    [] c = "I" -> "i" [] c = "M" -> "m" [] c = "T" -> "t" [] c = "V" -> "v"
    [] c = "X" -> "x" [] OTHER -> c

Lower(s) == [i \in 1..Len(s) |-> LowerChar(s[i])]

RECURSIVE LStrip(_)
LStrip(s) == IF s # <<>> /\ Head(s) \in Whitespace THEN LStrip(Tail(s)) ELSE s

RECURSIVE RStrip(_)
RStrip(s) == IF s # <<>> /\ s[Len(s)] \in Whitespace
               THEN RStrip(SubSeq(s, 1, Len(s) - 1)) ELSE s

\* str.strip
Strip(s) == RStrip(LStrip(s))

\* sub in s
Contains(s, sub) ==
  \E i \in 1..(Len(s) - Len(sub) + 1) : SubSeq(s, i, i + Len(sub) - 1) = sub

\* s.startswith(p)
StartsWith(s, p) == Len(s) >= Len(p) /\ SubSeq(s, 1, Len(p)) = p

\* re.match(r"([\d\.]+)", s): the leading run of digits and dots; <<>> is no match
RECURSIVE MatchNumRun(_)
MatchNumRun(s) ==
  IF s # <<>> /\ Head(s) \in Digits \cup {"."}
    THEN <<Head(s)>> \o MatchNumRun(Tail(s)) ELSE <<>>

DotCount(s) == Cardinality({i \in 1..Len(s) : s[i] = "."})

\* the digits of s read as one base-10 integer, dots skipped
RECURSIVE DigitsVal(_, _)
DigitsVal(s, acc) ==
  IF s = <<>> THEN acc
  ELSE IF Head(s) = "." THEN DigitsVal(Tail(s), acc)
  ELSE DigitsVal(Tail(s), 10 * acc + DigitVal(Head(s)))

\* digits that follow the dot of s
Decimals(s) ==
  IF DotCount(s) = 0 THEN 0
  ELSE Len(s) - (CHOOSE i \in 1..Len(s) : s[i] = ".")

\* float() accepts an unsigned text of digits and dots: one dot at most, a digit at least
IsDecimal(s) ==
  /\ s # <<>>
  /\ \A i \in 1..Len(s) : s[i] \in Digits \cup {"."}
  /\ DotCount(s) <= 1
  /\ \E i \in 1..Len(s) : s[i] \in Digits

DecimalVal(s) == Rat(DigitsVal(s, 0), Pow10(Decimals(s)))

\* float(s) for a stripped s over signs, digits, dots and other characters that
\* spell no exponent, separator, "inf" or "nan": raised is a ValueError
FloatOf(s) ==
  LET signed == s # <<>> /\ Head(s) \in {"-", "+"}
      body   == IF signed THEN Tail(s) ELSE s
      v      == DecimalVal(body)
  IN  IF ~IsDecimal(body) THEN [raised |-> TRUE, val |-> R(0)]
      ELSE [raised |-> FALSE,
            val |-> IF signed /\ Head(s) = "-" THEN Rat(-v.n, v.d) ELSE v]

---------------------------------------------------------------------------
(* Helper functions of both scripts.                                       *)

DIV0 == <<"#", "d", "i", "v", "/", "0">>

ZERO_MB == <<"0", ".", "0", "0", " ", "m", "b">>

ZERO_PREFIX == <<"0", ".", "0", "0">>

\* parse_data_size(size_str): GB, or raised when float() rejects the matched run
parse_data_size(size_str) ==
  LET s     == Lower(Strip(size_str))
      match == MatchNumRun(s)
      f     == FloatOf(match)
      val   == f.val
  IN  IF Contains(s, DIV0) \/ s = ZERO_MB \/ StartsWith(s, ZERO_PREFIX)
        THEN [raised |-> FALSE, val |-> R(0)]
      ELSE IF s = ZERO_MB \/ s = <<>> THEN [raised |-> FALSE, val |-> R(0)]
      ELSE IF match = <<>> THEN [raised |-> FALSE, val |-> R(0)]
      ELSE IF f.raised THEN [raised |-> TRUE, val |-> R(0)]
      ELSE IF Contains(s, <<"t", "b">>)
        THEN [raised |-> FALSE, val |-> RMul(val, R(1024))]
      ELSE IF Contains(s, <<"g", "b">>) THEN [raised |-> FALSE, val |-> val]
      ELSE IF Contains(s, <<"m", "b">>)
        THEN [raised |-> FALSE, val |-> RDiv(val, R(1024))]
      ELSE [raised |-> FALSE, val |-> val]

\* parse_float_maybe(s): the bare except turns every ValueError into 0.0
parse_float_maybe(str) ==
  LET s == Lower(Strip(str))
      f == FloatOf(s)
  IN  IF Contains(s, DIV0) \/ s = <<>> THEN R(0)
      ELSE IF f.raised THEN R(0)
      ELSE f.val

---------------------------------------------------------------------------
(* Line tokenization.                                                      *)

\* raw_line.split("\t")
RECURSIVE SplitTab(_, _)
SplitTab(s, cur) ==
  IF s = <<>> THEN <<cur>>
  ELSE IF Head(s) = "\t" THEN <<cur>> \o SplitTab(Tail(s), <<>>)
  ELSE SplitTab(Tail(s), Append(cur, Head(s)))

\* length of the whitespace run s starts with
RECURSIVE WsRun(_)
WsRun(s) == IF s # <<>> /\ Head(s) \in Whitespace THEN 1 + WsRun(Tail(s)) ELSE 0

\* re.split(r"\s{2,}", raw_line): a run of two or more whitespace characters separates
RECURSIVE SplitWs2(_, _)
SplitWs2(s, cur) ==
  IF s = <<>> THEN <<cur>>
  ELSE IF WsRun(s) >= 2
    THEN <<cur>> \o SplitWs2(SubSeq(s, WsRun(s) + 1, Len(s)), <<>>)
  ELSE SplitWs2(Tail(s), Append(cur, Head(s)))

\* variant: the tab split alone, without the whitespace fallback
ColsTabOnly(raw_line) == SplitTab(raw_line, <<>>)

\* cols of a stripped, nonblank line
Cols(raw_line) ==
  LET cols == SplitTab(raw_line, <<>>)
  IN  IF Len(cols) < 4 THEN SplitWs2(raw_line, <<>>) ELSE cols

---------------------------------------------------------------------------
(* Record assembly: the body of "for line in f".                           *)

NewRecord(client_name, data_gb, read_ops, write_ops) ==
  [client |-> client_name, data_gb |-> data_gb,
   avg_read_ops_s |-> read_ops, avg_write_ops_s |-> write_ops]

\* index of the record the scan "for d in clients_data" stops at, 0 when not found
FoundAt(cd, client_name) ==
  IF \E i \in 1..Len(cd) : cd[i].client = client_name
    THEN CHOOSE i \in 1..Len(cd) :
           /\ cd[i].client = client_name
           /\ \A j \in 1..(i - 1) : cd[j].client # client_name
    ELSE 0

\* variant: the match adds the row's values to the stored ones
SetThroughputAdding(d, read_ops, write_ops) ==
  [d EXCEPT !.avg_read_ops_s = RAdd(@, read_ops),
            !.avg_write_ops_s = RAdd(@, write_ops)]

\* the throughput fields written by the scan's match
SetThroughput(d, read_ops, write_ops) ==
  [d EXCEPT !.avg_read_ops_s = read_ops, !.avg_write_ops_s = write_ops]

\* variant: a size row for a known client sets that record's data_gb in place
SizeRowMerging(cd, cols) ==
  LET client_name == Lower(Strip(cols[1]))
      parsed      == parse_data_size(Strip(cols[3]))
      k           == FoundAt(cd, client_name)
  IN  IF parsed.raised THEN [raised |-> TRUE, data |-> cd]
      ELSE [raised |-> FALSE,
            data |-> IF k # 0 THEN [cd EXCEPT ![k].data_gb = parsed.val]
                     ELSE Append(cd, NewRecord(client_name, parsed.val, R(0), R(0)))]

\* the len(cols) == 4 branch
SizeRow(cd, cols) ==
  LET client_name == Lower(Strip(cols[1]))
      parsed      == parse_data_size(Strip(cols[3]))
  IN  IF parsed.raised THEN [raised |-> TRUE, data |-> cd]
      ELSE [raised |-> FALSE,
            data |-> Append(cd, NewRecord(client_name, parsed.val, R(0), R(0)))]

\* the len(cols) == 5 branch
ThroughputRow(cd, cols) ==
  LET client_name == Lower(Strip(cols[1]))
      read_ops    == parse_float_maybe(cols[2])
      write_ops   == parse_float_maybe(cols[3])
      k           == FoundAt(cd, client_name)
  IN  [raised |-> FALSE,
       data |-> IF k # 0
                  THEN [cd EXCEPT ![k] = SetThroughput(cd[k], read_ops, write_ops)]
                  ELSE Append(cd, NewRecord(client_name, R(0), read_ops, write_ops))]

\* one iteration of the read loop over clients_data = cd
ProcessLine(cd, line) ==
  LET raw_line == Strip(line)
      cols     == Cols(raw_line)
  IN  IF raw_line = <<>> THEN [raised |-> FALSE, data |-> cd]
      ELSE IF Len(cols) = 4 THEN SizeRow(cd, cols)
      ELSE IF Len(cols) = 5 THEN ThroughputRow(cd, cols)
      ELSE [raised |-> FALSE, data |-> cd]

---------------------------------------------------------------------------
(* Tier recommendation view (MongoDBSizing_CL.py).                         *)

DATA_INTENSIVE_THRESHOLD == 1024

IOPS_INTENSIVE_THRESHOLD == 4000

FALLBACK_COST == 2000

CLUSTER_TIERS ==
  [t \in {"M30", "M50", "M100", "M200"} |->
     CASE t = "M30" -> 1500 [] t = "M50" -> 3000
       [] t = "M100" -> 5000 [] t = "M200" -> 8000]

\* variant: the top tier needs both dimensions to be large
recommend_cluster_tier_both(data_gb, iops) ==
  IF RGe(data_gb, R(5000)) /\ RGe(iops, R(15000)) THEN "M200"
  ELSE IF RGe(data_gb, R(2000)) \/ RGe(iops, R(8000)) THEN "M100"
  ELSE IF RGe(data_gb, R(500)) \/ RGe(iops, R(2000)) THEN "M50"
  ELSE "M30"

recommend_cluster_tier(data_gb, iops) ==
  IF RGe(data_gb, R(5000)) \/ RGe(iops, R(15000)) THEN "M200"
  ELSE IF RGe(data_gb, R(2000)) \/ RGe(iops, R(8000)) THEN "M100"
  ELSE IF RGe(data_gb, R(500)) \/ RGe(iops, R(2000)) THEN "M50"
  ELSE "M30"

\* variant: both comparisons exclusive at the boundary
ClassificationExclusive(data_gb, iops) ==
  LET data_intensive == ~RGe(R(DATA_INTENSIVE_THRESHOLD), data_gb)
      iops_intensive == ~RGe(R(IOPS_INTENSIVE_THRESHOLD), iops)
  IN  IF data_intensive /\ iops_intensive THEN "Data+IOPS Intensive"
      ELSE IF data_intensive THEN "Data-Intensive"
      ELSE IF iops_intensive THEN "IOPS-Intensive"
      ELSE "Moderate"

\* the classification block of the output loop
Classification(data_gb, iops) ==
  LET data_intensive == RGe(data_gb, R(DATA_INTENSIVE_THRESHOLD))
      iops_intensive == RGe(iops, R(IOPS_INTENSIVE_THRESHOLD))
  IN  IF data_intensive /\ iops_intensive THEN "Data+IOPS Intensive"
      ELSE IF data_intensive THEN "Data-Intensive"
      ELSE IF iops_intensive THEN "IOPS-Intensive"
      ELSE "Moderate"

\* variant: the table has no entry for the top tier
TierCostWithoutTop(tier) ==
  IF tier \in DOMAIN CLUSTER_TIERS \ {"M200"} THEN CLUSTER_TIERS[tier] ELSE FALLBACK_COST

\* CLUSTER_TIERS.get(tier, 2000.0)
TierCost(tier) ==
  IF tier \in DOMAIN CLUSTER_TIERS THEN CLUSTER_TIERS[tier] ELSE FALLBACK_COST

\* round(x, k) on the exact value: the nearest multiple of 10^-k, a tie going to
\* the even one; ScaledFloor is floor(x * 10^k) with the remainder left over
RECURSIVE ScaledFloor(_, _, _, _)
ScaledFloor(q, r, d, k) ==
  IF k = 0 THEN [q |-> q, r |-> r]
  ELSE ScaledFloor(10 * q + ((10 * r) \div d), (10 * r) % d, d, k - 1)

Round(x, k) ==
  LET f == ScaledFloor(x.n \div x.d, x.n % x.d, x.d, k)
      q == IF 2 * f.r > x.d \/ (2 * f.r = x.d /\ f.q % 2 = 1) THEN f.q + 1 ELSE f.q
  IN  Rat(q, Pow10(k))

\* one iteration of the output loop of MongoDBSizing_CL.py
TierRow(d) ==
  LET iops           == RAdd(d.avg_read_ops_s, d.avg_write_ops_s)
      classification == Classification(d.data_gb, iops)
      tier           == recommend_cluster_tier(d.data_gb, iops)
      monthly_cost   == R(TierCost(tier))
  IN  [client |-> d.client, data_gb |-> d.data_gb, iops |-> iops,
       classification |-> classification, tier |-> tier,
       monthly_cost |-> monthly_cost,
       written |-> <<d.client, Round(d.data_gb, 3), Round(d.avg_read_ops_s, 3),
                     Round(d.avg_write_ops_s, 3), Round(iops, 3),
                     classification, tier, Round(monthly_cost, 2)>>]

---------------------------------------------------------------------------
(* Proportional allocation view (MongoSizing.py).                          *)

TOTAL_CLUSTER_COST == 240000

DEFAULT_DATA_WEIGHT == Rat(1, 2)

DEFAULT_IOPS_WEIGHT == Rat(1, 2)

HEAVY_DATA_WEIGHT == Rat(1, 4)

HEAVY_IOPS_WEIGHT == Rat(3, 4)

HEAVY_IOPS_CLIENTS ==
  { <<"a", "d", "v", "e", "n", "t", "h", "e", "a", "l", "t", "h">>,
    <<"c", "l", "e", "v", "e", "l", "a", "n", "d", "c", "l", "i", "n">>,
    <<"p", "s", "j", "h", "e", "a", "l", "t", "h">> }

IOPS_THRESHOLD == 4000

\* 1e-9
EPSILON == [n |-> 1, d |-> 1000000000]

IopsOf(d) == RAdd(d.avg_read_ops_s, d.avg_write_ops_s)

\* sum(d["data_gb"] for d in clients_data)
RECURSIVE SumData(_)
SumData(cd) ==
  IF cd = <<>> THEN R(0) ELSE RAdd(Head(cd).data_gb, SumData(Tail(cd)))

\* sum(d["avg_read_ops_s"] + d["avg_write_ops_s"] for d in clients_data)
RECURSIVE SumIops(_)
SumIops(cd) ==
  IF cd = <<>> THEN R(0) ELSE RAdd(IopsOf(Head(cd)), SumIops(Tail(cd)))

\* variant: the totals are used as summed
ZeroGuardMissing(total) == total

\* "if total == 0: total = 1e-9"
ZeroGuard(total) == IF total.n = 0 THEN EPSILON ELSE total

\* variant: the threshold is exclusive
WeightsThresholdExclusive(client, iops) ==
  IF client \in HEAVY_IOPS_CLIENTS
     \/ (RGe(iops, R(IOPS_THRESHOLD)) /\ iops # R(IOPS_THRESHOLD))
    THEN [data_w |-> HEAVY_DATA_WEIGHT, iops_w |-> HEAVY_IOPS_WEIGHT]
    ELSE [data_w |-> DEFAULT_DATA_WEIGHT, iops_w |-> DEFAULT_IOPS_WEIGHT]

\* the weight pair of the blended policy
Weights(client, iops) ==
  IF client \in HEAVY_IOPS_CLIENTS \/ RGe(iops, R(IOPS_THRESHOLD))
    THEN [data_w |-> HEAVY_DATA_WEIGHT, iops_w |-> HEAVY_IOPS_WEIGHT]
    ELSE [data_w |-> DEFAULT_DATA_WEIGHT, iops_w |-> DEFAULT_IOPS_WEIGHT]

\* variant: the blend is applied whatever the policy flag says
WeightedShareAlwaysBlended(pure, client, iops, data_share, iops_share) ==
  LET w == Weights(client, iops)
  IN  RAdd(RMul(data_share, w.data_w), RMul(iops_share, w.iops_w))

WeightedShare(pure, client, iops, data_share, iops_share) ==
  IF pure THEN data_share
  ELSE LET w == Weights(client, iops)
       IN  RAdd(RMul(data_share, w.data_w), RMul(iops_share, w.iops_w))

\* one iteration of the output loop of MongoSizing.py; raised is a ZeroDivisionError
AllocRow(d, pure, td, ti) ==
  LET iops           == IopsOf(d)
      data_share     == RDiv(d.data_gb, td)
      iops_share     == RDiv(iops, ti)
      weighted_share == WeightedShare(pure, d.client, iops, data_share, iops_share)
      monthly_cost   == RMul(weighted_share, R(TOTAL_CLUSTER_COST))
  IN  IF td.n = 0 \/ ti.n = 0 THEN [raised |-> TRUE]
      ELSE [raised |-> FALSE, client |-> d.client, data_gb |-> d.data_gb,
            iops |-> iops, data_share |-> data_share, iops_share |-> iops_share,
            weighted_share |-> weighted_share, monthly_cost |-> monthly_cost,
            written |-> <<d.client, Round(d.data_gb, 3),
                          Round(d.avg_read_ops_s, 3), Round(d.avg_write_ops_s, 3),
                          Round(iops, 3), Round(data_share, 6),
                          Round(iops_share, 6), Round(weighted_share, 6),
                          Round(monthly_cost, 2)>>]

---------------------------------------------------------------------------
(* The input file: lines the model feeds to the read loop.  The sizes are  *)
(* 1024 GB, 512 GB and 0, the throughputs 1000, 4000, -3000 and 0 ops/s.   *)

TAB == <<"\t">>

SP2 == <<" ", " ">>

RECURSIVE Join(_, _)
Join(fields, sep) ==
  IF Len(fields) = 1 THEN fields[1]
  ELSE fields[1] \o sep \o Join(Tail(fields), sep)

NameA == <<"a">>

NameAUpper == <<"A", " ">>

NameP == <<"p", "s", "j", "h", "e", "a", "l", "t", "h">>

X == <<"x">>

InputLines ==
  { \* size rows: client, earlier size, latest size, growth
    Join(<<NameA, X, <<"1", ".", "0", "0", " ", "T", "B">>, X>>, TAB),
    Join(<<NameAUpper, X, <<"0", ".", "0", "0", " ", "M", "B">>, X>>, TAB),
    Join(<<NameP, X, <<"5", "2", "4", "2", "8", "8", " ", "M", "B">>, X>>, TAB),
    Join(<<NameP, X, <<"0", ".", "0", "0", "5", " ", "T", "B">>, X>>, SP2),
    Join(<<NameA, X, <<".">>, X>>, TAB),
    \* throughput rows: client, read ops, write ops, read pct, write pct
    Join(<<NameA, <<"9", "0", "0", ".", "0">>, <<"1", "0", "0", ".", "0">>, X, X>>, TAB),
    Join(<<NameAUpper, <<"4", "0", "0", "0">>, <<"0">>, X, X>>, TAB),
    Join(<<NameP, <<"-", "3", "0", "0", "0">>, <<"0">>, X, X>>, TAB),
    Join(<<NameP, <<"0">>, <<"#", "D", "I", "V", "/", "0", "!">>, X, X>>, SP2),
    \* noise: a blank line, three fields, six fields
    <<" ">>,
    Join(<<NameA, X, X>>, TAB),
    Join(<<NameA, X, X, X, X, X>>, TAB) }

---------------------------------------------------------------------------
(* The run of one script.  PURE_DATA_ONLY is the policy flag of            *)
(* MongoSizing.py (True as shipped); a run starts with either setting.     *)
(* pc names the section the script is in, or the exception that ended it.  *)

NoCall == [fn |-> "none"]

Init ==
  /\ script \in {"MongoDBSizing_CL", "MongoSizing"}
  /\ PURE_DATA_ONLY \in IF script = "MongoSizing" THEN BOOLEAN ELSE {TRUE}
  /\ pc = "read"
  /\ consumed = <<>>
  /\ clients_data = <<>>
  /\ total_data_gb = R(0)
  /\ total_iops = R(0)
  /\ out = <<>>
  /\ call = NoCall
  /\ ret = NoCall

\* "for line in f": one line read and handled
ReadLine ==
  /\ pc = "read"
  /\ Len(consumed) < MaxLines
  /\ \E line \in InputLines :
       LET res == ProcessLine(clients_data, line)
       IN  /\ consumed' = Append(consumed, line)
           /\ clients_data' = res.data
           /\ pc' = IF res.raised THEN "ValueError" ELSE "read"
  /\ UNCHANGED <<script, PURE_DATA_ONLY, total_data_gb, total_iops, out, call, ret>>

\* the file is exhausted
EndOfInput ==
  /\ pc = "read"
  /\ pc' = IF script = "MongoSizing" THEN "sum" ELSE "emit"
  /\ UNCHANGED <<script, PURE_DATA_ONLY, consumed, clients_data, total_data_gb,
                 total_iops, out, call, ret>>

\* section 4 of MongoSizing.py: the totals and their zero guards
Summations ==
  /\ pc = "sum"
  /\ total_data_gb' = ZeroGuard(SumData(clients_data))
  /\ total_iops' = ZeroGuard(SumIops(clients_data))
  /\ pc' = "emit"
  /\ UNCHANGED <<script, PURE_DATA_ONLY, consumed, clients_data, out, call, ret>>

\* one row written by MongoDBSizing_CL.py
OutputTierRow ==
  /\ pc = "emit"
  /\ script = "MongoDBSizing_CL"
  /\ Len(out) < Len(clients_data)
  /\ out' = Append(out, TierRow(clients_data[Len(out) + 1]))
  /\ UNCHANGED <<script, PURE_DATA_ONLY, pc, consumed, clients_data,
                 total_data_gb, total_iops, call, ret>>

\* one row written by MongoSizing.py
OutputAllocRow ==
  /\ pc = "emit"
  /\ script = "MongoSizing"
  /\ Len(out) < Len(clients_data)
  /\ LET row == AllocRow(clients_data[Len(out) + 1], PURE_DATA_ONLY,
                         total_data_gb, total_iops)
     IN  IF row.raised
           THEN pc' = "ZeroDivisionError" /\ out' = out
           ELSE pc' = pc /\ out' = Append(out, row)
  /\ UNCHANGED <<script, PURE_DATA_ONLY, consumed, clients_data,
                 total_data_gb, total_iops, call, ret>>

\* the output loop is over
Finish ==
  /\ pc = "emit"
  /\ Len(out) = Len(clients_data)
  /\ pc' = "done"
  /\ UNCHANGED <<script, PURE_DATA_ONLY, consumed, clients_data, total_data_gb,
                 total_iops, out, call, ret>>

Next ==
  \/ ReadLine
  \/ EndOfInput
  \/ Summations
  \/ OutputTierRow
  \/ OutputAllocRow
  \/ Finish

Spec == Init /\ [][Next]_vars

---------------------------------------------------------------------------
(* The parsers applied to single field texts.                              *)

Tokens ==
  { <<"0", ".", "0", "0">>, <<"5">>, <<"1">>, <<".">>, <<" ">>, <<"-">>,
    <<"T", "B">>, <<"G", "b">>, <<"m", "b">>, <<"x">>,
    <<"#", "D", "I", "V", "/", "0">> }

\* texts of at most k tokens
RECURSIVE TextsUpTo(_)
TextsUpTo(k) ==
  IF k = 0 THEN {<<>>}
  ELSE LET shorter == TextsUpTo(k - 1)
       IN  shorter \cup {t \o tok : t \in shorter, tok \in Tokens}

FieldTexts == TextsUpTo(MaxTokens)

InitParse ==
  /\ script = "none"
  /\ PURE_DATA_ONLY = TRUE
  /\ pc = "idle"
  /\ consumed = <<>>
  /\ clients_data = <<>>
  /\ total_data_gb = R(0)
  /\ total_iops = R(0)
  /\ out = <<>>
  /\ call \in {[fn |-> "parse", text |-> t] : t \in FieldTexts}
  /\ ret = NoCall

CallParseDataSize ==
  /\ call.fn = "parse"
  /\ ret = NoCall
  /\ LET res == parse_data_size(call.text)
     IN  ret' = [fn |-> "parse_data_size", raised |-> res.raised, val |-> res.val]
  /\ UNCHANGED <<script, PURE_DATA_ONLY, pc, consumed, clients_data,
                 total_data_gb, total_iops, out, call>>

CallParseFloatMaybe ==
  /\ call.fn = "parse"
  /\ ret = NoCall
  /\ ret' = [fn |-> "parse_float_maybe", raised |-> FALSE,
             val |-> parse_float_maybe(call.text)]
  /\ UNCHANGED <<script, PURE_DATA_ONLY, pc, consumed, clients_data,
                 total_data_gb, total_iops, out, call>>

NextParse ==
  \/ CallParseDataSize
  \/ CallParseFloatMaybe

SpecParse == InitParse /\ [][NextParse]_vars

---------------------------------------------------------------------------
(* The classifier and the tier recommender applied to single records.      *)

\* hundredths at and around every threshold of both cascades
DataGrid ==
  { Rat(h, 100) : h \in { 0, 10000, 49999, 50000, 50001, 102399, 102400, 102401,
                          199999, 200000, 200001, 499999, 500000, 500001, 600000 } }

IopsGrid ==
  { Rat(h, 100) : h \in { -500, 0, 199999, 200000, 200001, 399999, 400000, 400001,
                          799999, 800000, 800001, 1499999, 1500000, 1500001,
                          1600000 } }

InitView ==
  /\ script = "none"
  /\ PURE_DATA_ONLY = TRUE
  /\ pc = "idle"
  /\ consumed = <<>>
  /\ clients_data = <<>>
  /\ total_data_gb = R(0)
  /\ total_iops = R(0)
  /\ out = <<>>
  /\ call \in {[fn |-> "view", data_gb |-> x, iops |-> y] : x \in DataGrid, y \in IopsGrid}
  /\ ret = NoCall

CallRecommend ==
  /\ call.fn = "view"
  /\ ret = NoCall
  /\ ret' = [fn |-> "recommend_cluster_tier",
             val |-> recommend_cluster_tier(call.data_gb, call.iops)]
  /\ UNCHANGED <<script, PURE_DATA_ONLY, pc, consumed, clients_data,
                 total_data_gb, total_iops, out, call>>

CallClassify ==
  /\ call.fn = "view"
  /\ ret = NoCall
  /\ ret' = [fn |-> "classification",
             val |-> Classification(call.data_gb, call.iops)]
  /\ UNCHANGED <<script, PURE_DATA_ONLY, pc, consumed, clients_data,
                 total_data_gb, total_iops, out, call>>

\* one iteration of the output loop on a record with the call's size and throughput
CallTierRow ==
  /\ call.fn = "view"
  /\ ret = NoCall
  /\ ret' = [fn |-> "tier_row",
             val |-> TierRow(NewRecord(NameA, call.data_gb, call.iops, R(0)))]
  /\ UNCHANGED <<script, PURE_DATA_ONLY, pc, consumed, clients_data,
                 total_data_gb, total_iops, out, call>>

\* keys handed to the cost lookup: the four table names and names outside the table
TierNameInputs == {"M30", "M50", "M100", "M200", "M10", "M300", "m30", ""}

\* CLUSTER_TIERS.get(tier, 2000.0) on a given key
CallTierCost ==
  /\ call.fn = "view"
  /\ ret = NoCall
  /\ \E tier \in TierNameInputs :
       ret' = [fn |-> "get", tier |-> tier, val |-> TierCost(tier)]
  /\ UNCHANGED <<script, PURE_DATA_ONLY, pc, consumed, clients_data,
                 total_data_gb, total_iops, out, call>>

NextView ==
  \/ CallRecommend
  \/ CallClassify
  \/ CallTierRow
  \/ CallTierCost

SpecView == InitView /\ [][NextView]_vars

---------------------------------------------------------------------------
(* What the properties below read off the state.                           *)

\* the fields of every input line, tokenized once
ColsOfLine == [line \in InputLines |-> Cols(Strip(line))]

RowCols(line) == ColsOfLine[line]

\* field count of a consumed line, 0 for a blank one
RowKind(line) == IF Strip(line) = <<>> THEN 0 ELSE Len(RowCols(line))

RowClient(line) == Lower(Strip(RowCols(line)[1]))

SizeRowsOf(c) ==
  {i \in 1..Len(consumed) : RowKind(consumed[i]) = 4 /\ RowClient(consumed[i]) = c}

ThroughputRowsOf(c) ==
  {i \in 1..Len(consumed) : RowKind(consumed[i]) = 5 /\ RowClient(consumed[i]) = c}

RecordsOf(c) == {k \in 1..Len(clients_data) : clients_data[k].client = c}

ClientsSeen == {RowClient(consumed[i]) : i \in {j \in 1..Len(consumed) : RowKind(consumed[j]) > 0}}

Assembling == pc \in {"read", "sum", "emit", "done"}

AllDataZero == \A k \in 1..Len(clients_data) : clients_data[k].data_gb.n = 0

AllIopsZero == \A k \in 1..Len(clients_data) : IopsOf(clients_data[k]).n = 0

RECURSIVE SumField(_, _)
SumField(rows, field) ==
  IF rows = <<>> THEN R(0) ELSE RAdd(Head(rows)[field], SumField(Tail(rows), field))

---------------------------------------------------------------------------
(* C1.  Merge correctness: when the input holds a size row and a           *)
(* throughput row for one client, in either order, the record set holds    *)
(* exactly one record for that client, its data_gb from a size row and its *)
(* throughput fields from a throughput row.                                *)
(* The 4-field branch appends without looking the client up, so a size row *)
(* that follows a throughput row leaves two records.                       *)

C1_MergeYieldsOneRecord ==
  Assembling =>
    \A c \in ClientsSeen :
      (SizeRowsOf(c) # {} /\ ThroughputRowsOf(c) # {}) =>
        /\ Cardinality(RecordsOf(c)) = 1
        /\ \A k \in RecordsOf(c) :
             /\ \E i \in SizeRowsOf(c) :
                  clients_data[k].data_gb = parse_data_size(Strip(RowCols(consumed[i])[3])).val
             /\ \E j \in ThroughputRowsOf(c) :
                  /\ clients_data[k].avg_read_ops_s = parse_float_maybe(RowCols(consumed[j])[2])
                  /\ clients_data[k].avg_write_ops_s = parse_float_maybe(RowCols(consumed[j])[3])

(* C2.  Uniqueness: in every reachable state no two records of             *)
(* clients_data carry the same client identifier.                          *)
(* Violated by two size rows for one client.                               *)

C2_OneRecordPerClient ==
  \A i, j \in 1..Len(clients_data) :
    i # j => clients_data[i].client # clients_data[j].client

(* C3.  Non-negativity: every record's data_gb, avg_read_ops_s and         *)
(* avg_write_ops_s is >= 0 whatever the field texts were.                  *)
(* parse_float_maybe returns float(s) for a signed literal, so a           *)
(* throughput field "-3000" is stored as -3000.                            *)

C3_FieldsNonNegative ==
  \A k \in 1..Len(clients_data) :
    /\ clients_data[k].data_gb.n >= 0
    /\ clients_data[k].avg_read_ops_s.n >= 0
    /\ clients_data[k].avg_write_ops_s.n >= 0

(* C4.  Totality: parse_data_size returns a value >= 0 for every text and  *)
(* never raises.                                                           *)
(* float() of a matched run such as "." or "1.1.1" raises ValueError,      *)
(* which parse_data_size does not catch.                                   *)

C4_ParseDataSizeTotal ==
  ret.fn = "parse_data_size" => (~ret.raised /\ ret.val.n >= 0)

(* C5.  Unit conversion: for a text with a leading numeric literal v and   *)
(* no #DIV/0 sentinel, parse_data_size returns v*1024 with a terabyte      *)
(* token, v with a gigabyte token, v/1024 with a megabyte token and v with *)
(* no unit token, for every v.                                             *)
(* The early return on startswith("0.00") turns 0.005 TB into 0.           *)

C5_UnitConversionExact ==
  ret.fn = "parse_data_size" =>
    LET s   == Lower(Strip(call.text))
        lit == MatchNumRun(s)
        v   == DecimalVal(lit)
    IN  (IsDecimal(lit) /\ ~Contains(s, DIV0)) =>
          /\ ~ret.raised
          /\ ret.val = IF Contains(s, <<"t", "b">>) THEN Rat(v.n * 1024, v.d)
                       ELSE IF Contains(s, <<"g", "b">>) THEN v
                       ELSE IF Contains(s, <<"m", "b">>) THEN Rat(v.n, v.d * 1024)
                       ELSE v

(* C6.  Allocation conservation: for a nonempty record set and either      *)
(* policy, the weighted shares of the finished allocation sum to 1 and the *)
(* monthly costs sum to TOTAL_CLUSTER_COST.                                *)
(* Per-client weight pairs are not renormalised, so a heavy-weighted and a *)
(* default-weighted client sum to more or less than 1, and a zero total    *)
(* gives shares that sum to 0.                                             *)

C6_AllocationConserved ==
  (script = "MongoSizing" /\ pc = "done" /\ Len(clients_data) >= 1) =>
    /\ SumField(out, "weighted_share") = R(1)
    /\ SumField(out, "monthly_cost") = R(TOTAL_CLUSTER_COST)

(* C7.  Zero-denominator safety, as first stated: with every data_gb 0    *)
(* the allocator raises no division failure and every data_share is close  *)
(* to an even split 1/N (here: within a tenth of 1/N); the same for        *)
(* iops_share when every record's total IOPS is 0.                         *)
(* The guard makes the denominator 1e-9, so every share is 0 / 1e-9 = 0.   *)

CloseToEvenSplit(share) ==
  LET N == Len(clients_data)
  IN  10 * Abs(N * share.n - share.d) <= share.d

C7_ZeroTotalEvenSplit ==
  (script = "MongoSizing" /\ Len(clients_data) >= 1) =>
    /\ pc # "ZeroDivisionError"
    /\ AllDataZero => \A k \in 1..Len(out) : CloseToEvenSplit(out[k].data_share)
    /\ AllIopsZero => \A k \in 1..Len(out) : CloseToEvenSplit(out[k].iops_share)

(* C7, amended.  With every data_gb 0 the allocator raises no division     *)
(* failure and every record's data_share is exactly 0; the same for        *)
(* iops_share when every record's total IOPS is 0.                         *)

C7_ZeroTotalSharesZero ==
  script = "MongoSizing" =>
    /\ pc # "ZeroDivisionError"
    /\ AllDataZero => \A k \in 1..Len(out) : out[k].data_share = R(0)
    /\ AllIopsZero => \A k \in 1..Len(out) : out[k].iops_share = R(0)

\* two records, all storage and all throughput zero, allocation finished
C7_Witness ==
  /\ script = "MongoSizing"
  /\ pc = "done"
  /\ Len(clients_data) >= 2
  /\ Len(out) = Len(clients_data)
  /\ AllDataZero
  /\ AllIopsZero

(* C8.  recommend_cluster_tier returns the higher of the tier chosen by    *)
(* storage alone (>= 500 M50, >= 2000 M100, >= 5000 M200, else M30) and    *)
(* the tier chosen by throughput alone (>= 2000 M50, >= 8000 M100,         *)
(* >= 15000 M200, else M30); raising either input never lowers the tier;   *)
(* (100, 16000) gives M200.                                                *)

TierRank(t) == CASE t = "M30" -> 1 [] t = "M50" -> 2 [] t = "M100" -> 3 [] t = "M200" -> 4

TierOfRank(r) == CASE r = 1 -> "M30" [] r = 2 -> "M50" [] r = 3 -> "M100" [] r = 4 -> "M200"

\* rank by one dimension with inclusive thresholds t2 < t3 < t4
RankBy(x, t2, t3, t4) ==
  IF RGe(x, R(t4)) THEN 4 ELSE IF RGe(x, R(t3)) THEN 3 ELSE IF RGe(x, R(t2)) THEN 2 ELSE 1

Max2(a, b) == IF a >= b THEN a ELSE b

C8_TierIsHigherOfBoth ==
  ret.fn = "recommend_cluster_tier" =>
    /\ ret.val = TierOfRank(Max2(RankBy(call.data_gb, 500, 2000, 5000),
                                 RankBy(call.iops, 2000, 8000, 15000)))
    /\ \A x \in DataGrid, y \in IopsGrid :
         (RGe(x, call.data_gb) /\ RGe(y, call.iops)) =>
           TierRank(recommend_cluster_tier(x, y)) >= TierRank(ret.val)
    /\ (call.data_gb = R(100) /\ call.iops = R(16000)) => ret.val = "M200"

\* small storage, throughput past the top threshold
C8_Witness ==
  /\ ret.fn = "recommend_cluster_tier"
  /\ call.data_gb = R(100)
  /\ call.iops = R(16000)
  /\ ret.val = "M200"

(* C9.  The classification is "Data+IOPS Intensive" iff data_gb >= 1024    *)
(* and IOPS >= 4000, "Data-Intensive" iff data_gb >= 1024 and IOPS < 4000, *)
(* "IOPS-Intensive" iff data_gb < 1024 and IOPS >= 4000, "Moderate" iff    *)
(* both are below; one of the four labels, both comparisons inclusive.     *)

C9_ClassificationByThresholds ==
  ret.fn = "classification" =>
    LET big  == call.data_gb.n >= 1024 * call.data_gb.d
        busy == call.iops.n >= 4000 * call.iops.d
    IN  /\ ret.val \in {"Data+IOPS Intensive", "Data-Intensive", "IOPS-Intensive", "Moderate"}
        /\ ret.val = "Data+IOPS Intensive" <=> (big /\ busy)
        /\ ret.val = "Data-Intensive" <=> (big /\ ~busy)
        /\ ret.val = "IOPS-Intensive" <=> (~big /\ busy)
        /\ ret.val = "Moderate" <=> (~big /\ ~busy)

\* both inputs exactly at their thresholds
C9_Witness ==
  /\ ret.fn = "classification"
  /\ call.data_gb = R(1024)
  /\ call.iops = R(4000)
  /\ ret.val = "Data+IOPS Intensive"

(* C10.  A throughput row for client c: when a record for c exists, the    *)
(* first such record gets the row's parsed read and write values in place  *)
(* of its old ones, keeps its data_gb, every other record is unchanged and *)
(* no record is added; when none exists, exactly one record is appended    *)
(* with data_gb 0 and the row's values.                                    *)

C10_ThroughputRowFrame ==
  [][ (Len(consumed') = Len(consumed) + 1 /\ RowKind(consumed'[Len(consumed')]) = 5) =>
        LET cols      == RowCols(consumed'[Len(consumed')])
            c         == RowClient(consumed'[Len(consumed')])
            read_ops  == parse_float_maybe(cols[2])
            write_ops == parse_float_maybe(cols[3])
        IN  IF RecordsOf(c) # {}
              THEN LET k == CHOOSE m \in RecordsOf(c) : \A o \in RecordsOf(c) : m <= o
                   IN  /\ Len(clients_data') = Len(clients_data)
                       /\ clients_data'[k].client = c
                       /\ clients_data'[k].avg_read_ops_s = read_ops
                       /\ clients_data'[k].avg_write_ops_s = write_ops
                       /\ clients_data'[k].data_gb = clients_data[k].data_gb
                       /\ \A i \in 1..Len(clients_data) :
                            i # k => clients_data'[i] = clients_data[i]
              ELSE clients_data' =
                     Append(clients_data,
                            [client |-> c, data_gb |-> R(0),
                             avg_read_ops_s |-> read_ops, avg_write_ops_s |-> write_ops])
    ]_vars

\* a size row for "a", then two throughput rows for "a": the second overwrote the first
C10_Witness ==
  /\ Len(consumed) = 3
  /\ RowKind(consumed[1]) = 4
  /\ RowKind(consumed[2]) = 5
  /\ RowKind(consumed[3]) = 5
  /\ \A i \in 1..3 : RowClient(consumed[i]) = NameA
  /\ parse_float_maybe(RowCols(consumed[2])[2]) # parse_float_maybe(RowCols(consumed[3])[2])
  /\ Len(clients_data) = 1
  /\ clients_data[1].data_gb = R(1024)
  /\ clients_data[1].avg_read_ops_s = parse_float_maybe(RowCols(consumed[3])[2])

(* C11.  A line is dispatched by its field count: the tab split, or, when  *)
(* that gives fewer than four fields, the split on runs of two or more     *)
(* whitespace characters.  Four fields are a size row (one record          *)
(* appended, unless the size text makes float() raise), five a throughput  *)
(* row; a blank line or any other count leaves the record set unchanged    *)
(* and raises no error.                                                    *)

TabCount(s) == Cardinality({i \in 1..Len(s) : s[i] = "\t"})

\* maximal runs of two or more whitespace characters in s
WideGapCount(s) ==
  Cardinality({i \in 1..(Len(s) - 1) :
                 /\ s[i] \in Whitespace
                 /\ s[i + 1] \in Whitespace
                 /\ (i = 1 \/ s[i - 1] \notin Whitespace)})

\* fields of a line counted without splitting it, 0 for a blank line
FieldCount(line) ==
  LET s == Strip(line)
  IN  IF s = <<>> THEN 0
      ELSE IF TabCount(s) + 1 >= 4 THEN TabCount(s) + 1
      ELSE WideGapCount(s) + 1

\* the fields of each input line, cut at the separator its tab count selects
FieldsOf ==
  [line \in InputLines |->
     LET s == Strip(line)
     IN  IF TabCount(s) + 1 >= 4 THEN SplitTab(s, <<>>) ELSE SplitWs2(s, <<>>)]

C11_DispatchByFieldCount ==
  [][ Len(consumed') = Len(consumed) + 1 =>
        LET line == consumed'[Len(consumed')]
            n    == FieldCount(line)
        IN  IF n = 4
              THEN \/ pc' = "ValueError" /\ clients_data' = clients_data
                   \/ /\ pc' = "read"
                      /\ clients_data' =
                           Append(clients_data,
                                  [client |-> Lower(Strip(FieldsOf[line][1])),
                                   data_gb |-> parse_data_size(Strip(FieldsOf[line][3])).val,
                                   avg_read_ops_s |-> R(0), avg_write_ops_s |-> R(0)])
            ELSE IF n = 5
              THEN /\ pc' = "read"
                   /\ Len(clients_data') \in {Len(clients_data), Len(clients_data) + 1}
                   /\ \E k \in 1..Len(clients_data') :
                        /\ clients_data'[k].client = Lower(Strip(FieldsOf[line][1]))
                        /\ clients_data'[k].avg_read_ops_s = parse_float_maybe(FieldsOf[line][2])
                        /\ clients_data'[k].avg_write_ops_s = parse_float_maybe(FieldsOf[line][3])
            ELSE pc' = "read" /\ clients_data' = clients_data
    ]_vars

\* a size row separated by two spaces, then a three-field and a six-field line
C11_Witness ==
  /\ pc = "read"
  /\ Len(consumed) = 3
  /\ TabCount(consumed[1]) = 0
  /\ FieldCount(consumed[1]) = 4
  /\ TabCount(consumed[2]) = 2
  /\ FieldCount(consumed[2]) = 1
  /\ FieldCount(consumed[3]) = 6
  /\ Len(clients_data) = 1
  /\ clients_data[1].client = NameP

(* C12.  Under the pure-size policy every weighted_share equals the       *)
(* record's data_share, which is data_gb over the (guarded) sum of data_gb *)
(* and so reads no throughput; a record set with the same data_gb values   *)
(* and other throughput fields and client names gets the same              *)
(* weighted_share and monthly_cost, row by row.                            *)

\* data_gb over the guarded total of data_gb, from the data_gb values alone
ShareOfData(k) ==
  LET total == SumField(clients_data, "data_gb")
  IN  IF total.n = 0 THEN RMul(clients_data[k].data_gb, R(1000000000))
      ELSE RDiv(clients_data[k].data_gb, total)

\* clients_data with record j busy under a heavy-listed name and the others idle
\* (j = 0: all idle)
OtherThroughput(j) ==
  [k \in 1..Len(clients_data) |->
     IF k = j
       THEN [client |-> NameP, data_gb |-> clients_data[k].data_gb,
             avg_read_ops_s |-> R(4000), avg_write_ops_s |-> R(1000)]
       ELSE [client |-> NameA, data_gb |-> clients_data[k].data_gb,
             avg_read_ops_s |-> R(0), avg_write_ops_s |-> R(0)]]

C12_PureIgnoresThroughput ==
  (script = "MongoSizing" /\ PURE_DATA_ONLY /\ pc = "done") =>
    /\ Len(out) = Len(clients_data)
    /\ \A k \in 1..Len(out) :
         /\ out[k].weighted_share = out[k].data_share
         /\ out[k].weighted_share = ShareOfData(k)
         /\ out[k].monthly_cost = RMul(ShareOfData(k), R(240000))
         /\ \A j \in 0..Len(clients_data) :
              LET other == OtherThroughput(j)
                  row   == AllocRow(other[k], PURE_DATA_ONLY,
                                    ZeroGuard(SumData(other)), ZeroGuard(SumIops(other)))
              IN  /\ row.weighted_share = out[k].weighted_share
                  /\ row.monthly_cost = out[k].monthly_cost

\* a finished pure-size run over a busy record and a heavy-listed one, sizes differing
C12_Witness ==
  /\ script = "MongoSizing"
  /\ PURE_DATA_ONLY
  /\ pc = "done"
  /\ Len(out) >= 2
  /\ \E k \in 1..Len(out) : RGe(out[k].iops, R(4000)) /\ out[k].data_gb.n > 0
  /\ \E k \in 1..Len(out) : out[k].client = NameP /\ out[k].data_gb.n > 0
  /\ \E k \in 1..Len(out) : out[k].weighted_share = Rat(2, 3)

(* C13.  Under the blended policy a row is weighted 1/4 data, 3/4 IOPS iff  *)
(* its client is one of the three heavy-listed names or its total IOPS is   *)
(* at least 4000, and 1/2, 1/2 otherwise; the pair sums to 1 and            *)
(* weighted_share = data_share * data weight + iops_share * iops weight.    *)

HeavyNames ==
  { <<"a", "d", "v", "e", "n", "t", "h", "e", "a", "l", "t", "h">>,
    <<"c", "l", "e", "v", "e", "l", "a", "n", "d", "c", "l", "i", "n">>,
    <<"p", "s", "j", "h", "e", "a", "l", "t", "h">> }

IsHeavyRow(row) == row.client \in HeavyNames \/ RGe(row.iops, R(4000))

BlendOf(row, dw, iw) == RAdd(RMul(row.data_share, dw), RMul(row.iops_share, iw))

C13_BlendedWeights ==
  (script = "MongoSizing" /\ ~PURE_DATA_ONLY) =>
    \A k \in 1..Len(out) :
      LET row == out[k]
          dw  == IF IsHeavyRow(row) THEN Rat(1, 4) ELSE Rat(1, 2)
          iw  == IF IsHeavyRow(row) THEN Rat(3, 4) ELSE Rat(1, 2)
      IN  /\ Weights(row.client, row.iops) = [data_w |-> dw, iops_w |-> iw]
          /\ RAdd(dw, iw) = R(1)
          /\ row.weighted_share = BlendOf(row, dw, iw)

\* a finished blended run with a row heavy by the threshold alone (exactly 4000),
\* a row heavy by its name alone and a default row, each with unequal shares
C13_Witness ==
  /\ script = "MongoSizing"
  /\ ~PURE_DATA_ONLY
  /\ pc = "done"
  /\ \E k \in 1..Len(out) :
       /\ out[k].client \notin HeavyNames
       /\ out[k].iops = R(4000)
       /\ out[k].data_share # out[k].iops_share
       /\ out[k].weighted_share = BlendOf(out[k], Rat(1, 4), Rat(3, 4))
  /\ \E k \in 1..Len(out) :
       /\ out[k].client \in HeavyNames
       /\ ~RGe(out[k].iops, R(4000))
       /\ out[k].data_share # out[k].iops_share
       /\ out[k].weighted_share = BlendOf(out[k], Rat(1, 4), Rat(3, 4))
  /\ \E k \in 1..Len(out) :
       /\ ~IsHeavyRow(out[k])
       /\ out[k].data_share # out[k].iops_share
       /\ out[k].weighted_share = BlendOf(out[k], Rat(1, 2), Rat(1, 2))

(* C14.  As stated: a record's throughput fields, once set by a throughput *)
(* row, are changed by no later row; its data_gb, once set, is changed by   *)
(* no later row; and no record changes after the last line is consumed.     *)
(* A second throughput row for the same client refutes the first part.      *)

Throughput(d) == <<d.avg_read_ops_s, d.avg_write_ops_s>>

\* the first record of its client: the one the scan of a throughput row stops at
IsFirstOfClient(cd, k) == \A j \in 1..(k - 1) : cd[j].client # cd[k].client

\* record k has had its throughput fields written by a consumed throughput row
ThroughputWasSet(k) ==
  /\ IsFirstOfClient(clients_data, k)
  /\ ThroughputRowsOf(clients_data[k].client) # {}

C14_FieldGroupsSetOnce ==
  [][ /\ \A k \in 1..Len(clients_data) :
           /\ k <= Len(clients_data')
           /\ clients_data'[k].data_gb = clients_data[k].data_gb
           /\ ThroughputWasSet(k) => Throughput(clients_data'[k]) = Throughput(clients_data[k])
      /\ pc # "read" => clients_data' = clients_data ]_vars

(* C14, amended.  A record is never removed and its client and data_gb     *)
(* never change; its throughput fields change only on a step that consumes *)
(* a five-field row for its client, only if it is the first record of that *)
(* client, and then to that row's values, however many such rows came      *)
(* before; no record changes once the input has been consumed.             *)
C14_OnlyThroughputRowsRewrite ==
  [][ /\ \A k \in 1..Len(clients_data) :
           /\ k <= Len(clients_data')
           /\ clients_data'[k].client = clients_data[k].client
           /\ clients_data'[k].data_gb = clients_data[k].data_gb
           /\ Throughput(clients_data'[k]) # Throughput(clients_data[k]) =>
                /\ Len(consumed') = Len(consumed) + 1
                /\ LET line == consumed'[Len(consumed')]
                   IN  /\ RowKind(line) = 5
                       /\ RowClient(line) = clients_data[k].client
                       /\ IsFirstOfClient(clients_data, k)
                       /\ Throughput(clients_data'[k]) =
                            << parse_float_maybe(RowCols(line)[2]),
                               parse_float_maybe(RowCols(line)[3]) >>
      /\ pc # "read" => clients_data' = clients_data ]_vars

\* a finished run in which two throughput rows of one client were consumed and the
\* record holds the later row's values, which differ from the earlier row's
C14_Witness ==
  /\ pc = "done"
  /\ \E i \in 1..Len(consumed) : \E j \in (i + 1)..Len(consumed) :
       /\ RowKind(consumed[i]) = 5
       /\ RowKind(consumed[j]) = 5
       /\ RowClient(consumed[i]) = RowClient(consumed[j])
       /\ RowCols(consumed[i])[2] # RowCols(consumed[j])[2]
       /\ \E k \in 1..Len(clients_data) :
            /\ clients_data[k].client = RowClient(consumed[j])
            /\ clients_data[k].avg_read_ops_s = parse_float_maybe(RowCols(consumed[j])[2])
            /\ clients_data[k].avg_read_ops_s # parse_float_maybe(RowCols(consumed[i])[2])
  /\ \E i \in 1..Len(consumed) : RowKind(consumed[i]) = 4

(* C15.  The list-based assembler and an assembler keeping its records in  *)
(* a mapping keyed by the normalized client identifier end with the same    *)
(* records, each the same number of times, for every line sequence.         *)
(* The mapping is the substitution the specification describes: a size row  *)
(* produces the client's record or sets its data_gb, a throughput row sets  *)
(* the client's throughput fields or produces the record with data_gb 0.    *)
(* It is kept as the sequence of its values in insertion order, one per key.*)

MapSizeRow(m, cols) ==
  LET client_name == Lower(Strip(cols[1]))
      parsed      == parse_data_size(Strip(cols[3]))
      k           == FoundAt(m, client_name)
  IN  IF parsed.raised THEN [raised |-> TRUE, data |-> m]
      ELSE [raised |-> FALSE,
            data |-> IF k # 0 THEN [m EXCEPT ![k].data_gb = parsed.val]
                     ELSE Append(m, NewRecord(client_name, parsed.val, R(0), R(0)))]

MapThroughputRow(m, cols) ==
  LET client_name == Lower(Strip(cols[1]))
      read_ops    == parse_float_maybe(cols[2])
      write_ops   == parse_float_maybe(cols[3])
      k           == FoundAt(m, client_name)
  IN  [raised |-> FALSE,
       data |-> IF k # 0
                  THEN [m EXCEPT ![k].avg_read_ops_s = read_ops,
                                 ![k].avg_write_ops_s = write_ops]
                  ELSE Append(m, NewRecord(client_name, R(0), read_ops, write_ops))]

MapProcessLine(m, line) ==
  IF RowKind(line) = 4 THEN MapSizeRow(m, RowCols(line))
  ELSE IF RowKind(line) = 5 THEN MapThroughputRow(m, RowCols(line))
  ELSE [raised |-> FALSE, data |-> m]

\* the mapping after the lines, in order; it stops at the line that raises
RECURSIVE MapAssemble(_, _)
MapAssemble(m, lines) ==
  IF lines = <<>> THEN [raised |-> FALSE, data |-> m]
  ELSE LET res == MapProcessLine(m, Head(lines))
       IN  IF res.raised THEN res ELSE MapAssemble(res.data, Tail(lines))

Occurrences(cd, r) == Cardinality({k \in 1..Len(cd) : cd[k] = r})

SameRecords(cd, m) ==
  /\ Len(cd) = Len(m)
  /\ \A k \in 1..Len(cd) : Occurrences(cd, cd[k]) = Occurrences(m, cd[k])

C15_ListEqualsMapping ==
  Assembling => SameRecords(clients_data, MapAssemble(<<>>, consumed).data)

(* C16.  The monthly cost of a tier row is the table constant of its tier  *)
(* (M30 1500, M50 3000, M100 5000, M200 8000); the tier is always one of    *)
(* the four table names, so the cost is never the fallback 2000; a lookup   *)
(* of a name outside the table gives 2000.                                  *)

CostOfTier(t) ==
  CASE t = "M30" -> 1500 [] t = "M50" -> 3000 [] t = "M100" -> 5000
    [] t = "M200" -> 8000 [] OTHER -> 2000

TableNames == {"M30", "M50", "M100", "M200"}

C16_CostIsTableConstant ==
  /\ ret.fn = "tier_row" =>
       /\ ret.val.tier \in TableNames
       /\ ret.val.monthly_cost = R(CostOfTier(ret.val.tier))
       /\ ret.val.monthly_cost # R(2000)
       /\ ret.val.written[7] = ret.val.tier
       /\ ret.val.written[8] = ret.val.monthly_cost
  /\ ret.fn = "get" =>
       /\ ret.val = CostOfTier(ret.tier)
       /\ ret.tier \notin TableNames => ret.val = 2000
  /\ script = "MongoDBSizing_CL" =>
       \A k \in 1..Len(out) :
         /\ out[k].tier \in TableNames
         /\ out[k].monthly_cost = R(CostOfTier(out[k].tier))

\* a top-tier row costing 8000
C16_Witness ==
  /\ ret.fn = "tier_row"
  /\ ret.val.tier = "M200"
  /\ ret.val.monthly_cost = R(8000)
  /\ call.data_gb = R(100)

(* C17.  A step consuming a four-field row leaves every existing record    *)
(* unchanged and appends exactly one record, with the row's client, the     *)
(* parsed data_gb and both throughput fields 0, whether or not the client   *)
(* already has a record; the rows are emitted in the order of the records.  *)

AppendedBySizeRow(line) ==
  [client |-> RowClient(line),
   data_gb |-> parse_data_size(Strip(RowCols(line)[3])).val,
   avg_read_ops_s |-> R(0), avg_write_ops_s |-> R(0)]

C17_SizeRowAppendOnly ==
  [][ /\ (Len(consumed') = Len(consumed) + 1 /\ RowKind(consumed'[Len(consumed')]) = 4) =>
           clients_data' = Append(clients_data, AppendedBySizeRow(consumed'[Len(consumed')]))
      /\ Len(out') <= Len(clients_data')
      /\ \A k \in 1..Len(out') :
           /\ out'[k].client = clients_data'[k].client
           /\ out'[k].data_gb = clients_data'[k].data_gb ]_vars

===========================================================================
